---- MODULE Spec2Model ----
(***************************************************************************)
(* A model of the near-Earth-object database: the record types of          *)
(* models.py, the linking and indexing constructor, the two lookups and    *)
(* the query generator of database.py, and the two writers of write.py.    *)
(*                                                                         *)
(* Python's None is the empty tuple and any other optional value v is the  *)
(* one-element tuple <<v>>.  Distances, velocities and diameters are       *)
(* whole numbers of an abstract unit; the unknown diameter float('nan')    *)
(* is the value NaN, which every comparison treats as IEEE 754 does.       *)
(***************************************************************************)
EXTENDS Integers, Sequences, FiniteSets, TLC

VARIABLES
    heap,                  \* NearEarthObject instances: id -> fields
    cas,                   \* CloseApproach instances: id -> fields
    neos,                  \* NEODatabase._neos: sequence of NearEarthObject ids
    approaches,            \* NEODatabase._approaches: sequence of CloseApproach ids
    neo_with_designation,  \* NEODatabase.neo_with_designation (a dict)
    neo_with_name,         \* NEODatabase.neo_with_name (a dict)
    pc,                    \* where the constructor is: index, link, done, error
    i,                     \* the constructor's position in the loop it is in
    gens,                  \* the generators query() has returned
    ret,                   \* the last lookup: its operation, argument and result
    file                   \* what the last writer call wrote

vars == <<heap, cas, neos, approaches, neo_with_designation, neo_with_name,
          pc, i, gens, ret, file>>

---------------------------------------------------------------------------
(* Bounds of the model. *)

NumNeos == 2     \* NearEarthObject instances that exist
NumCas  == 2     \* CloseApproach instances in the approaches collection
MaxDay  == 1     \* calendar days are 0..MaxDay
MaxVal  == 1     \* distances, velocities, diameters and numeric bounds are 0..MaxVal
MaxSet  == 2     \* criteria a filter request sets at once
NumGens == 2     \* generators alive at once

NeoIds == 1..NumNeos
CaIds  == 1..NumCas
GenIds == 1..NumGens

---------------------------------------------------------------------------
(* Values. *)

None == <<>>
Some(v) == <<v>>

\* float('nan'), models.py line 47
NaN == -1

\* Primary designations: object n of a data set without duplicates has
\* DesignationOf[n]; Designations are those a data set with duplicates uses.
DesignationOf == <<"433", "99942", "1036", "2101", "4179">>
Designations == {DesignationOf[1], DesignationOf[2]}
Names == {"Eros", "Apophis"}
\* The name column of an input row: empty, or a name.
NameTexts == {Some("")} \cup {Some(n) : n \in Names}

\* The text of a number in the input files, and float() of it.
Digits == <<"0", "1", "2", "3", "4", "5", "6", "7", "8", "9">>
NumText == {Digits[n + 1] : n \in 0..MaxVal}
Float(s) == (CHOOSE n \in 1..Len(Digits) : Digits[n] = s) - 1

\* datetime.date() of a datetime, which is its calendar date and its time of day.
DateOf(t) == t.date

\* x <= y on floats: false when either side is NaN.
FloatLe(x, y) == x # NaN /\ y # NaN /\ x <= y
IsNan(x) == x = NaN

Max(S) == CHOOSE x \in S : \A y \in S : y <= x

\* dict[k] = v
Put(dict, k, v) == [x \in DOMAIN dict \cup {k} |-> IF x = k THEN v ELSE dict[x]]
\* dict.get(k)
Get(dict, k) == IF k \in DOMAIN dict THEN Some(dict[k]) ELSE None

---------------------------------------------------------------------------
(* models.py *)

\* bool(name) of an optional string: None and '' are false.
NameTruthy(name) == name # None /\ name # Some("")

\* NearEarthObject.__init__ with no excess keyword arguments; name is an
\* optional string, diameter the text of the CSV column ('' when empty).
NearEarthObject(designation, name, diameter, hazardous) ==
    [designation |-> designation,
     name        |-> IF ~NameTruthy(name) THEN None ELSE name,
     diameter    |-> IF diameter = "" THEN NaN ELSE Float(diameter),
     hazardous   |-> (hazardous = "Y"),
     approaches  |-> <<>>]

\* CloseApproach.__init__: neo is a NearEarthObject id, time the datetime
\* cd_to_datetime returns, distance and velocity number texts.
CloseApproach(neo, time, distance, velocity) ==
    [neo          |-> neo,
     _designation |-> heap[neo].designation,
     time         |-> time,
     distance     |-> Float(distance),
     velocity     |-> Float(velocity)]

---------------------------------------------------------------------------
(* The state before NEODatabase.__init__ runs its loops: the objects and  *)
(* close approaches it is given, and the two empty dicts.                  *)

NoFilters ==
    [date |-> None, start_date |-> None, end_date |-> None,
     distance_min |-> None, distance_max |-> None,
     velocity_min |-> None, velocity_max |-> None,
     diameter_min |-> None, diameter_max |-> None,
     hazardous |-> None]

NoGen == [filters |-> NoFilters, pos |-> 0, out |-> <<>>, status |-> "unused"]

\* The rows of the two input files: one per object, one per close approach.
NeoRows(desigs, names, diameters, hazards) ==
    [designation : desigs, name : names, diameter : diameters,
     hazardous : hazards]
CaRows(refs, times, dists, vels) ==
    [neo : refs, time : times, distance : dists, velocity : vels]

\* objs and evts are the inputs to choose from: for every object id its
\* row, for every close approach id its row and the object it is created
\* with; lens the lengths the collection of objects may have (the database
\* is given objects 1..n).
InitFrom(objs, evts, lens) ==
    /\ \E o \in objs :
           heap = [n \in NeoIds |->
                      NearEarthObject(o[n].designation, o[n].name,
                                      o[n].diameter, o[n].hazardous)]
    /\ \E c \in evts :
           cas = [k \in CaIds |->
                     CloseApproach(c[k].neo, c[k].time, c[k].distance,
                                   c[k].velocity)]
    /\ \E n \in lens : neos = [k \in 1..n |-> k]
    /\ approaches = [k \in CaIds |-> k]
    /\ neo_with_designation = <<>>
    /\ neo_with_name = <<>>
    /\ pc = "index"
    /\ i = 1
    /\ gens = [g \in GenIds |-> NoGen]
    /\ ret = [op |-> "none", arg |-> None, val |-> None]
    /\ file = None

---------------------------------------------------------------------------
(* database.py: NEODatabase.__init__ *)

\* A variant that keeps the first object of a designation.
IndexDesignationFirstWins(dict, neo) ==
    IF heap[neo].designation \in DOMAIN dict THEN dict
    ELSE Put(dict, heap[neo].designation, neo)

\* self.neo_with_designation[neo.designation] = neo
IndexDesignation(dict, neo) == Put(dict, heap[neo].designation, neo)

\* A variant that indexes every object, named or not.
IndexNameAlways(dict, neo) == Put(dict, heap[neo].name, neo)

\* if neo.name: self.neo_with_name[neo.name] = neo

IndexName(dict, neo) ==
    IF NameTruthy(heap[neo].name) THEN Put(dict, heap[neo].name, neo) ELSE dict

\* One iteration of "for neo in self._neos".
IndexNeo ==
    /\ pc = "index"
    /\ i <= Len(neos)
    /\ neo_with_designation' = IndexDesignation(neo_with_designation, neos[i])
    /\ neo_with_name' = IndexName(neo_with_name, neos[i])
    /\ i' = i + 1
    /\ UNCHANGED <<heap, cas, neos, approaches, pc, gens, ret, file>>

\* The first loop ends and the second begins.
EndIndexLoop ==
    /\ pc = "index"
    /\ i > Len(neos)
    /\ pc' = "link"
    /\ i' = 1
    /\ UNCHANGED <<heap, cas, neos, approaches, neo_with_designation,
                   neo_with_name, gens, ret, file>>

\* A variant that passes over a close approach whose designation is unknown.
LinkApproachSkipMissing ==
    /\ pc = "link"
    /\ i <= Len(approaches)
    /\ LET d == cas[approaches[i]]._designation
       IN  IF d \in DOMAIN neo_with_designation
           THEN LET neo == neo_with_designation[d]
                IN  heap' = [heap EXCEPT ![neo].approaches =
                                 Append(@, approaches[i])]
           ELSE heap' = heap
    /\ i' = i + 1
    /\ UNCHANGED <<cas, neos, approaches, neo_with_designation, neo_with_name,
                   pc, gens, ret, file>>

\* One iteration of "for approach in self._approaches": the subscript
\* raises KeyError when the designation is not a key, and the constructor
\* ends there.
LinkApproach ==
    /\ pc = "link"
    /\ i <= Len(approaches)
    /\ LET d == cas[approaches[i]]._designation
       IN  IF d \in DOMAIN neo_with_designation
           THEN LET neo == neo_with_designation[d]
                IN  /\ heap' = [heap EXCEPT ![neo].approaches =
                                    Append(@, approaches[i])]
                    /\ i' = i + 1
                    /\ pc' = pc
           ELSE /\ pc' = "error"
                /\ UNCHANGED <<heap, i>>
    /\ UNCHANGED <<cas, neos, approaches, neo_with_designation, neo_with_name,
                   gens, ret, file>>

\* The second loop ends: the database is constructed.
EndLinkLoop ==
    /\ pc = "link"
    /\ i > Len(approaches)
    /\ pc' = "done"
    /\ UNCHANGED <<heap, cas, neos, approaches, neo_with_designation,
                   neo_with_name, i, gens, ret, file>>

Construct == IndexNeo \/ EndIndexLoop \/ LinkApproach \/ EndLinkLoop

---------------------------------------------------------------------------
(* database.py: NEODatabase.query *)

OptDays  == {None} \cup {Some(d) : d \in 0..MaxDay}
OptNums  == {None} \cup {Some(v) : v \in 0..MaxVal}
OptBools == {None} \cup {Some(b) : b \in BOOLEAN}

\* The ten keys of a filter request, in the order the caller builds them.
Keys == <<"date", "start_date", "end_date", "distance_min", "distance_max",
          "velocity_min", "velocity_max", "diameter_min", "diameter_max",
          "hazardous">>

\* The values of the request whose value is None: none_count.
NoneCount(filters) ==
    Cardinality({k \in 1..Len(Keys) : filters[Keys[k]] = None})

\* Filter requests that set at most n criteria.
FiltersUpTo(n) ==
    {f \in [date : OptDays, start_date : OptDays, end_date : OptDays,
            distance_min : OptNums, distance_max : OptNums,
            velocity_min : OptNums, velocity_max : OptNums,
            diameter_min : OptNums, diameter_max : OptNums,
            hazardous : OptBools] : Len(Keys) - NoneCount(f) <= n}

\* Filter requests that set at most n criteria, all of them among keys.
FiltersOn(keys, n) ==
    {f \in FiltersUpTo(n) :
        \A k \in 1..Len(Keys) : Keys[k] \notin keys => f[Keys[k]] = None}

DateKeys == {"date", "start_date", "end_date"}

\* The requests the queries are run with: those that set at most MaxSet
\* criteria, and those that set only date criteria, any number of them.
Filters == FiltersUpTo(MaxSet) \cup FiltersOn(DateKeys, Cardinality(DateKeys))

\* A variant that compares none_count with one more than the ten keys.
AllUnsetWrongCount(filters) == NoneCount(filters) = Len(Keys) + 1

\* "none_count != 10" fails: the else branch yields every close approach.

AllUnset(filters) == NoneCount(filters) = Len(Keys)

\* bool(v) of an optional number: None and 0.0 are false.
Truthy(v) == v # None /\ v[1] # 0

\* bool(v) of an optional date: only None is false.
TruthyDate(v) == v # None

\* The loop body keeps apply_filters ("True", "False") or leaves the
\* iteration with continue ("Continue"); each block below maps the state
\* before it to the state after it.

\* if filters['date']: ...
DateFilter(filters, approach, flag) ==
    IF flag = "Continue" THEN flag
    ELSE IF TruthyDate(filters.date)
         THEN IF filters.date[1] = DateOf(approach.time)
              THEN "True" ELSE "Continue"
         ELSE flag

\* A variant in which a set exact date leaves the range unread.
RangeFilterUnlessDate(filters, approach, flag) ==
    IF flag = "Continue" \/ TruthyDate(filters.date) THEN flag
    ELSE LET d == DateOf(approach.time)
         IN  IF TruthyDate(filters.start_date) /\ TruthyDate(filters.end_date)
             THEN IF filters.start_date[1] <= d /\ d <= filters.end_date[1]
                  THEN "True" ELSE "Continue"
             ELSE IF TruthyDate(filters.start_date)
             THEN IF filters.start_date[1] <= d THEN "True" ELSE "Continue"
             ELSE IF TruthyDate(filters.end_date)
             THEN IF d <= filters.end_date[1] THEN "True" ELSE "Continue"
             ELSE flag

\* if filters['start_date'] and filters['end_date']: ... elif ... elif ...
RangeFilter(filters, approach, flag) ==
    IF flag = "Continue" THEN flag
    ELSE LET d == DateOf(approach.time)
         IN  IF TruthyDate(filters.start_date) /\ TruthyDate(filters.end_date)
             THEN IF filters.start_date[1] <= d /\ d <= filters.end_date[1]
                  THEN "True" ELSE "Continue"
             ELSE IF TruthyDate(filters.start_date)
             THEN IF filters.start_date[1] <= d THEN "True" ELSE "Continue"
             ELSE IF TruthyDate(filters.end_date)
             THEN IF d <= filters.end_date[1] THEN "True" ELSE "Continue"
             ELSE flag

\* if min and max: ... elif min: ... elif max: ...  on a value x
BoundFilter(min, max, x, flag) ==
    IF flag = "Continue" THEN flag
    ELSE IF Truthy(min) /\ Truthy(max)
         THEN IF FloatLe(min[1], x) /\ FloatLe(x, max[1])
              THEN "True" ELSE "Continue"
         ELSE IF Truthy(min)
         THEN IF FloatLe(min[1], x) THEN "True" ELSE "Continue"
         ELSE IF Truthy(max)
         THEN IF FloatLe(x, max[1]) THEN "True" ELSE "Continue"
         ELSE flag

DistanceFilter(filters, approach, flag) ==
    BoundFilter(filters.distance_min, filters.distance_max,
                approach.distance, flag)

VelocityFilter(filters, approach, flag) ==
    BoundFilter(filters.velocity_min, filters.velocity_max,
                approach.velocity, flag)

\* The diameter block: as the others, after "if math.isnan(...): continue".
DiameterFilter(filters, approach, flag) ==
    IF flag = "Continue" THEN flag
    ELSE IF (Truthy(filters.diameter_min) \/ Truthy(filters.diameter_max))
            /\ IsNan(heap[approach.neo].diameter)
         THEN "Continue"
         ELSE BoundFilter(filters.diameter_min, filters.diameter_max,
                          heap[approach.neo].diameter, flag)

\* if filters['hazardous'] is not None: ...
HazardousFilter(filters, approach, flag) ==
    IF flag = "Continue" THEN flag
    ELSE IF filters.hazardous # None
         THEN IF filters.hazardous[1] = heap[approach.neo].hazardous
              THEN "True" ELSE "Continue"
         ELSE flag

\* One iteration of the filtering loop yields the approach: apply_filters
\* starts False and the iteration reaches "if apply_filters" with it True.
Accepts(filters, approach) ==
    HazardousFilter(filters, approach,
      DiameterFilter(filters, approach,
        VelocityFilter(filters, approach,
          DistanceFilter(filters, approach,
            RangeFilter(filters, approach,
              DateFilter(filters, approach, "False")))))) = "True"

\* Whether the generator yields the close approach at position k.
Yields(filters, k) ==
    IF AllUnset(filters) THEN TRUE ELSE Accepts(filters, cas[approaches[k]])

\* The position of the next close approach the generator yields when it
\* resumes at position pos; Len(approaches) + 1 when it runs off the end.
NextYield(filters, pos) ==
    LET hits == {k \in pos..Len(approaches) : Yields(filters, k)}
    IN  IF hits = {} THEN Len(approaches) + 1
        ELSE CHOOSE k \in hits : \A j \in hits : k <= j

\* Everything the generator yields from position pos on: list(...) of it.
RECURSIVE Drain(_, _)
Drain(filters, pos) ==
    LET k == NextYield(filters, pos)
    IN  IF k > Len(approaches) THEN <<>>
        ELSE <<approaches[k]>> \o Drain(filters, k + 1)

\* A generator that shares one cursor with the others.
ResumePointShared(g) == Max({gens[h].pos : h \in GenIds})

\* Where generator g resumes: the loop position its own frame holds.
ResumePoint(g) == gens[g].pos

\* query(filters): a new generator; its body has not begun to run.
Query(g, filters) ==
    /\ pc = "done"
    /\ gens[g].status # "suspended"
    /\ gens' = [gens EXCEPT ![g] = [filters |-> filters, pos |-> 1,
                                    out |-> <<>>, status |-> "suspended"]]
    /\ UNCHANGED <<heap, cas, neos, approaches, neo_with_designation,
                   neo_with_name, pc, i, ret, file>>

\* The default of query's filters parameter: the empty tuple ().
DefaultFilters == <<>>

\* filters['distance_min'] has a value: a tuple subscripted by a string
\* raises TypeError.
Subscriptable(filters) == filters # DefaultFilters

\* query(): a new generator over the default filters.
QueryDefault(g) == Query(g, DefaultFilters)

\* next(generator): run to the next yield, or off the end (StopIteration);
\* the body's first statements subscript filters, and the generator ends
\* with the exception they raise.
Pull(g) ==
    /\ pc = "done"
    /\ gens[g].status = "suspended"
    /\ LET k == IF Subscriptable(gens[g].filters)
                THEN NextYield(gens[g].filters, ResumePoint(g))
                ELSE 0
       IN  gens' = [gens EXCEPT ![g] =
                      IF ~Subscriptable(gens[g].filters)
                      THEN [@ EXCEPT !.status = "raised"]
                      ELSE IF k > Len(approaches)
                      THEN [@ EXCEPT !.pos = k, !.status = "exhausted"]
                      ELSE [@ EXCEPT !.pos = k + 1,
                                     !.out = Append(@, approaches[k])]]
    /\ UNCHANGED <<heap, cas, neos, approaches, neo_with_designation,
                   neo_with_name, pc, i, ret, file>>

\* The caller drops a generator it has not run to the end.
Abandon(g) ==
    /\ pc = "done"
    /\ gens[g].status = "suspended"
    /\ gens' = [gens EXCEPT ![g].status = "closed"]
    /\ UNCHANGED <<heap, cas, neos, approaches, neo_with_designation,
                   neo_with_name, pc, i, ret, file>>

\* list(query(filters)): a new generator run to its end in one go.
QueryAll(g, filters) ==
    /\ pc = "done"
    /\ gens[g].status # "suspended"
    /\ gens' = [gens EXCEPT ![g] =
                   [filters |-> filters, pos |-> Len(approaches) + 1,
                    out |-> Drain(filters, 1), status |-> "exhausted"]]
    /\ UNCHANGED <<heap, cas, neos, approaches, neo_with_designation,
                   neo_with_name, pc, i, ret, file>>

---------------------------------------------------------------------------
(* database.py: the lookups *)

get_neo_by_designation(designation) == Get(neo_with_designation, designation)

get_neo_by_name(name) == Get(neo_with_name, name)

\* Designations a caller asks for: those in use and one no object has.
AskedDesignations == Designations \cup {"2020 AB"}

\* Names a caller asks for: None, '', those in use and one no object has.
AskedNames == {None, Some("")} \cup {Some(n) : n \in Names \cup {"Icarus"}}

CallGetNeoByDesignation ==
    /\ pc = "done"
    /\ \E d \in AskedDesignations :
           ret' = [op |-> "get_neo_by_designation", arg |-> Some(d),
                   val |-> get_neo_by_designation(d)]
    /\ UNCHANGED <<heap, cas, neos, approaches, neo_with_designation,
                   neo_with_name, pc, i, gens, file>>

CallGetNeoByName ==
    /\ pc = "done"
    /\ \E n \in AskedNames :
           ret' = [op |-> "get_neo_by_name", arg |-> n,
                   val |-> get_neo_by_name(n)]
    /\ UNCHANGED <<heap, cas, neos, approaches, neo_with_designation,
                   neo_with_name, pc, i, gens, file>>

---------------------------------------------------------------------------
(* write.py *)

\* The close approaches a writer's "for result in results" still gets from
\* generator g.
Remaining(g) == Drain(gens[g].filters, ResumePoint(g))

\* csv.writer renders None as the empty text.
CsvText(v) == IF v = None THEN "" ELSE v[1]

\* write_to_csv(results, filename), results being generator g.
write_to_csv(g) ==
    /\ pc = "done"
    /\ gens[g].status = "suspended"
    /\ LET results == Remaining(g)
       IN  /\ file' = [format |-> "csv",
                       rows |-> [k \in 1..Len(results) |->
                          LET result == cas[results[k]]
                          IN  [datetime_utc |-> result.time,
                               distance_au |-> result.distance,
                               velocity_km_s |-> result.velocity,
                               designation |-> result._designation,
                               name |-> CsvText(heap[result.neo].name),
                               diameter_km |-> heap[result.neo].diameter,
                               potentially_hazardous |->
                                   heap[result.neo].hazardous]]]
           /\ gens' = [gens EXCEPT ![g] =
                          [@ EXCEPT !.pos = Len(approaches) + 1,
                                    !.out = @ \o results,
                                    !.status = "exhausted"]]
    /\ UNCHANGED <<heap, cas, neos, approaches, neo_with_designation,
                   neo_with_name, pc, i, ret>>

\* The objects write_to_json's loop visits: those of the results.
Visited(results) == {cas[results[k]].neo : k \in 1..Len(results)}

\* if not result.neo.name: result.neo.name = ''
BlankNames(results) ==
    [n \in NeoIds |->
        IF n \in Visited(results) /\ ~NameTruthy(heap[n].name)
        THEN [heap[n] EXCEPT !.name = Some("")]
        ELSE heap[n]]

\* write_to_json(results, filename), results being generator g.
write_to_json(g) ==
    /\ pc = "done"
    /\ gens[g].status = "suspended"
    /\ LET results == Remaining(g)
       IN  /\ heap' = BlankNames(results)
           /\ file' = [format |-> "json",
                       rows |-> [k \in 1..Len(results) |->
                          LET result == cas[results[k]]
                          IN  [datetime_utc |-> result.time,
                               distance_au |-> result.distance,
                               velocity_km_s |-> result.velocity,
                               designation |-> result._designation,
                               name |-> heap'[result.neo].name[1],
                               diameter_km |-> heap[result.neo].diameter,
                               potentially_hazardous |->
                                   heap[result.neo].hazardous]]]
           /\ gens' = [gens EXCEPT ![g] =
                          [@ EXCEPT !.pos = Len(approaches) + 1,
                                    !.out = @ \o results,
                                    !.status = "exhausted"]]
    /\ UNCHANGED <<cas, neos, approaches, neo_with_designation,
                   neo_with_name, pc, i, ret>>

---------------------------------------------------------------------------
(* Construction and lookups: objects that may share designations and      *)
(* names, close approaches created with any object, in or out of the      *)
(* collection the database is given.                                       *)

Noon == [date |-> 0, hm |-> "12:00"]

InitBuild ==
    InitFrom([NeoIds -> NeoRows(Designations, NameTexts, {""}, {"N"})],
             [CaIds -> CaRows(NeoIds, {Noon}, {"0"}, {"0"})],
             0..NumNeos)

NextBuild == Construct \/ CallGetNeoByDesignation \/ CallGetNeoByName

SpecBuild == InitBuild /\ [][NextBuild]_vars

---------------------------------------------------------------------------
(* Queries run to their end: objects of any diameter and hazard flag, and *)
(* close approaches of any date, distance and velocity, approach c being  *)
(* one of object c (of object 1 when there are more approaches).          *)

OwnNeo(c) == IF c \in NeoIds THEN c ELSE 1

\* Data sets in which every object has a designation of its own.
Unique(objs) == {o \in objs : \A n \in NeoIds : o[n].designation = DesignationOf[n]}

AllDesignations == {DesignationOf[n] : n \in NeoIds}

QueryObjs ==
    Unique([NeoIds -> NeoRows(AllDesignations, {Some("")}, {""} \cup NumText,
                              {"Y", "N"})])
QueryEvts ==
    {c \in [CaIds -> CaRows(NeoIds, [date : 0..MaxDay, hm : {"12:00"}],
                            NumText, NumText)] :
        \A k \in CaIds : c[k].neo = OwnNeo(k)}

InitQuery == InitFrom(QueryObjs, QueryEvts, {NumNeos})

NextQuery ==
    \/ Construct
    \/ \E f \in Filters : gens[1].status = "unused" /\ QueryAll(1, f)

SpecQuery == InitQuery /\ [][NextQuery]_vars

---------------------------------------------------------------------------
(* Queries by date run to their end: close approaches of any date and     *)
(* distance, and every request over the three date criteria and the two   *)
(* distance criteria.                                                      *)

DateFilters ==
    FiltersOn(DateKeys \cup {"distance_min", "distance_max"}, Len(Keys))

DateObjs ==
    Unique([NeoIds -> NeoRows(AllDesignations, {Some("")}, {""}, {"N"})])
DateEvts ==
    {c \in [CaIds -> CaRows(NeoIds, [date : 0..MaxDay, hm : {"12:00"}],
                            NumText, {"0"})] :
        \A k \in CaIds : c[k].neo = OwnNeo(k)}

InitDates == InitFrom(DateObjs, DateEvts, {NumNeos})

NextDates ==
    \/ Construct
    \/ \E f \in DateFilters : gens[1].status = "unused" /\ QueryAll(1, f)

SpecDates == InitDates /\ [][NextDates]_vars

---------------------------------------------------------------------------
(* Generators pulled in any interleaving: objects of either hazard flag,  *)
(* and the requests that set hazardous or nothing.                         *)

GenFilters == FiltersOn({"hazardous"}, 1)

GenObjs ==
    Unique([NeoIds -> NeoRows(AllDesignations, {Some("")}, {""}, {"Y", "N"})])
GenEvts ==
    {c \in [CaIds -> CaRows(NeoIds, {Noon}, {"0"}, {"0"})] :
        \A k \in CaIds : c[k].neo = OwnNeo(k)}

InitGen == InitFrom(GenObjs, GenEvts, {NumNeos})

NextGen ==
    \/ Construct
    \/ \E g \in GenIds :
          \/ \E f \in GenFilters : Query(g, f)
          \/ Pull(g)
          \/ Abandon(g)

SpecGen == InitGen /\ [][NextGen]_vars

---------------------------------------------------------------------------
(* Generators as above, and query called with no argument.                 *)

NextDefault ==
    \/ Construct
    \/ \E g \in GenIds :
          \/ \E f \in GenFilters : Query(g, f)
          \/ QueryDefault(g)
          \/ Pull(g)
          \/ Abandon(g)

SpecDefault == InitGen /\ [][NextDefault]_vars

---------------------------------------------------------------------------
(* Lookups, queries and writers on a constructed database.                 *)

IoFilters == FiltersOn({"hazardous"}, 1)

IoObjs ==
    Unique([NeoIds -> NeoRows(AllDesignations, {Some(""), Some("Eros")}, {""},
                              {"Y", "N"})])
IoEvts ==
    {c \in [CaIds -> CaRows(NeoIds, {Noon}, {"0"}, {"0"})] :
        \A k \in CaIds : c[k].neo = OwnNeo(k)}

InitIo == InitFrom(IoObjs, IoEvts, {NumNeos})

NextIo ==
    \/ Construct
    \/ CallGetNeoByDesignation
    \/ CallGetNeoByName
    \/ \E f \in IoFilters : Query(1, f)
    \/ Pull(1)
    \/ write_to_csv(1)
    \/ write_to_json(1)

SpecIo == InitIo /\ [][NextIo]_vars

---------------------------------------------------------------------------
(* The claims. *)

IsPrefix(a, b) == Len(a) <= Len(b) /\ SubSeq(b, 1, Len(a)) = a

Count(seq, x) == Cardinality({k \in 1..Len(seq) : seq[k] = x})

\* A criterion is set when its value is not None; a close approach
\* satisfies a request when it satisfies every set criterion, bounds
\* inclusive (no bound is satisfied by the unknown diameter).
Satisfies(f, c) ==
    LET neo == heap[c.neo]
    IN  /\ f.date # None => DateOf(c.time) = f.date[1]
        /\ f.start_date # None => f.start_date[1] <= DateOf(c.time)
        /\ f.end_date # None => DateOf(c.time) <= f.end_date[1]
        /\ f.distance_min # None => FloatLe(f.distance_min[1], c.distance)
        /\ f.distance_max # None => FloatLe(c.distance, f.distance_max[1])
        /\ f.velocity_min # None => FloatLe(f.velocity_min[1], c.velocity)
        /\ f.velocity_max # None => FloatLe(c.velocity, f.velocity_max[1])
        /\ f.diameter_min # None => FloatLe(f.diameter_min[1], neo.diameter)
        /\ f.diameter_max # None => FloatLe(neo.diameter, f.diameter_max[1])
        /\ f.hazardous # None => neo.hazardous = f.hazardous[1]

\* The subsequence, in stored order, of the close approaches satisfying f.
Matching(f) ==
    LET Test(c) == Satisfies(f, cas[c]) IN SelectSeq(approaches, Test)

\* C1: a query run to its end has yielded exactly the subsequence, in
\* stored order, of the close approaches that satisfy every criterion of
\* its request that is not None.
C1_QueryYieldsExactlyTheMatching ==
    \A g \in GenIds :
        gens[g].status = "exhausted" => gens[g].out = Matching(gens[g].filters)

\* C2: a query whose request sets diameter_min or diameter_max never
\* yields a close approach of an object whose diameter is NaN.
C2_NoUnknownDiameterUnderDiameterBound ==
    \A g \in GenIds :
        (gens[g].filters.diameter_min # None \/ gens[g].filters.diameter_max # None)
        => \A k \in 1..Len(gens[g].out) :
               ~IsNan(heap[cas[gens[g].out[k]].neo].diameter)

\* C3: once the database is constructed, every close approach's object has
\* the designation the close approach was created with, and the close
\* approach is exactly once in that object's approaches list.
C3_EachApproachOnceInItsNeo ==
    pc = "done" =>
        \A k \in 1..Len(approaches) :
            LET c == approaches[k]
            IN  /\ heap[cas[c].neo].designation = cas[c]._designation
                /\ Count(heap[cas[c].neo].approaches, c) = 1

\* C4: a query whose ten criteria are all None, run to its end, has
\* yielded every close approach of the database in stored order, as many
\* as the database holds.
C4_AllUnsetYieldsEverything ==
    \A g \in GenIds :
        (gens[g].status = "exhausted" /\ gens[g].filters = NoFilters)
        => /\ gens[g].out = approaches
           /\ Len(gens[g].out) = Len(approaches)

C4_Witness ==
    /\ pc = "done"
    /\ gens[1].status = "exhausted"
    /\ gens[1].filters = NoFilters
    /\ gens[1].out = approaches
    /\ Len(approaches) >= 2

\* No object of the collection has the designation of close approach c.
Unmatched(c) ==
    \A k \in 1..Len(neos) : heap[neos[k]].designation # cas[c]._designation

Linked(c) == \E n \in NeoIds : Count(heap[n].approaches, c) > 0

\* C5: when some close approach's designation matches no object of the
\* collection, the constructor never completes; it fails at the first such
\* close approach in input order, and neither that one nor any later one
\* has been linked.
C5_FailsAtFirstUnmatched ==
    /\ pc = "done" => \A k \in 1..Len(approaches) : ~Unmatched(approaches[k])
    /\ pc = "error" =>
          /\ i \in 1..Len(approaches)
          /\ Unmatched(approaches[i])
          /\ \A k \in 1..(i - 1) : ~Unmatched(approaches[k])
          /\ \A k \in i..Len(approaches) : ~Linked(approaches[k])
    /\ pc = "link" =>
          \A k \in 1..(i - 1) : ~Unmatched(approaches[k])

C5_Witness ==
    /\ pc = "error"
    /\ i < Len(approaches)
    /\ ~Unmatched(approaches[i + 1])
    /\ ~Linked(approaches[i + 1])

\* The positions in the collection of the objects whose designation is d.
WithDesignation(d) ==
    {k \in 1..Len(neos) : heap[neos[k]].designation = d}

\* The positions in the collection of the objects whose name is n.
WithName(n) == {k \in 1..Len(neos) : heap[neos[k]].name = n}

\* C6: get_neo_by_designation returns the last object of the collection
\* that has the designation asked for, and None when no object has it.
C6_DesignationLookup ==
    ret.op = "get_neo_by_designation" =>
        LET holders == WithDesignation(ret.arg[1])
        IN  IF holders = {} THEN ret.val = None
            ELSE ret.val = Some(neos[Max(holders)])

C6_Witness ==
    /\ ret.op = "get_neo_by_designation"
    /\ Cardinality(WithDesignation(ret.arg[1])) >= 2
    /\ ret.val = Some(neos[NumNeos])

\* C7 as stated: get_neo_by_name(O.name) returns O for every object O of
\* the collection whose name is present and not empty, and no call returns
\* an object whose name is absent or empty.
C7_NameLookupReturnsEveryNamedObject ==
    ret.op = "get_neo_by_name" =>
        /\ \A k \in WithName(ret.arg) :
               NameTruthy(ret.arg) => ret.val = Some(neos[k])
        /\ ret.val # None => NameTruthy(heap[ret.val[1]].name)

\* C7 amended: get_neo_by_name(O.name) returns O or, when several objects
\* share that name, the last of them in collection order; and no call
\* returns an object whose name is absent or empty.
C7_NameLookupReturnsLastNamedObject ==
    ret.op = "get_neo_by_name" =>
        /\ (NameTruthy(ret.arg) /\ WithName(ret.arg) # {})
              => ret.val = Some(neos[Max(WithName(ret.arg))])
        /\ ret.val # None => NameTruthy(heap[ret.val[1]].name)

C7_Witness ==
    /\ ret.op = "get_neo_by_name"
    /\ NameTruthy(ret.arg)
    /\ Cardinality(WithName(ret.arg)) >= 2
    /\ ret.val = Some(neos[NumNeos])

\* C8: whatever the interleaving of pulls, a generator has yielded a prefix
\* of what its request yields when run alone, and all of it once it is
\* exhausted; what it has yet to yield is the rest.
C8_GeneratorsIndependent ==
    \A g \in GenIds :
        LET alone == Drain(gens[g].filters, 1)
        IN  /\ gens[g].status \in {"suspended", "closed"}
                  => IsPrefix(gens[g].out, alone)
            /\ gens[g].status = "suspended"
                  => gens[g].out \o Drain(gens[g].filters, gens[g].pos) = alone
            /\ gens[g].status = "exhausted" => gens[g].out = alone

C8_Witness ==
    /\ gens[1].status = "exhausted"
    /\ Len(gens[1].out) = 1
    /\ gens[2].status = "suspended"
    /\ Len(gens[2].out) = 2
    /\ gens[1].filters # gens[2].filters

\* C9: once the database is constructed no step changes an object, a close
\* approach, a collection or an index.
C9_ReadOnlyOnceConstructed ==
    [][pc = "done" =>
          /\ heap' = heap
          /\ cas' = cas
          /\ neos' = neos
          /\ approaches' = approaches
          /\ neo_with_designation' = neo_with_designation
          /\ neo_with_name' = neo_with_name]_vars

\* The request f with start_date and end_date unset.
WithoutRange(f) == [f EXCEPT !.start_date = None, !.end_date = None]

DateWithRange(f) ==
    f.date # None /\ (f.start_date # None \/ f.end_date # None)

\* C10 as stated: a request that sets the exact date and a range bound
\* yields what the same request without the range bounds yields.
C10_DateTakesPrecedence ==
    \A g \in GenIds :
        (gens[g].status = "exhausted" /\ DateWithRange(gens[g].filters))
        => gens[g].out = Drain(WithoutRange(gens[g].filters), 1)

\* The close approach's date lies within the range bounds f sets.
InRange(f, c) ==
    /\ f.start_date # None => f.start_date[1] <= DateOf(cas[c].time)
    /\ f.end_date # None => DateOf(cas[c].time) <= f.end_date[1]

\* C10 amended: a request that sets the exact date and a range bound
\* yields, of what the same request without the range bounds yields, the
\* close approaches whose date also lies within the range bounds.
C10_DateAndRangeBothApply ==
    \A g \in GenIds :
        (gens[g].status = "exhausted" /\ DateWithRange(gens[g].filters))
        => LET f == gens[g].filters
               Test(c) == InRange(f, c)
           IN  gens[g].out = SelectSeq(Drain(WithoutRange(f), 1), Test)

C10_Witness ==
    /\ gens[1].status = "exhausted"
    /\ DateWithRange(gens[1].filters)
    /\ gens[1].out = <<>>
    /\ Len(Drain(WithoutRange(gens[1].filters), 1)) = 2

\* C11: a generator of query called with no argument never ends with an
\* exception, and run to its end it has yielded every close approach of
\* the database in stored order.
C11_DefaultQueryYieldsEverything ==
    \A g \in GenIds :
        gens[g].filters = DefaultFilters
        => /\ gens[g].status # "raised"
           /\ gens[g].status = "exhausted" => gens[g].out = approaches

====
